---- MODULE Spec2Model ----
(***************************************************************************)
(* Model of electron-objproxy: the object registry of the main process     *)
(* (src/src/main/index.ts) and the proxy manager of a renderer process      *)
(* (src/src/renderer/proxy-manager.ts), joined by the IPC channel.          *)
(***************************************************************************)
EXTENDS Integers, Sequences, FiniteSets, TLC

\* ------------------------------------------------------------------ bounds
\* Largest object id the registry hands out in a run.
MaxId == 2
\* Largest number of messages in flight in one direction of the renderer's IPC.
MaxInFlight == 2
\* Largest number of proxies the renderer creates in a run.
MaxProxies == 3
\* Deepest chain of events raised by listeners while an event is dispatched.
MaxNesting == 1

\* ------------------------------------------------------- the class map
\* initObjProxy({ classMap: { Counter, Ticker } }): an object literal.
\* Counter is a plain class, Ticker extends EventTarget.
Registered == {"Counter", "Ticker"}
EventTargetClasses == {"Ticker"}
\* Names every object literal inherits from Object.prototype. A property
\* read map[name] finds them although they are no key of the map;
\* "constructor" reads as the function Object, which `new` accepts.
ObjectPrototype == {"constructor"}
\* Class names requests carry: the registered ones, a name that is no
\* property at all, and an inherited one.
ClassNames == Registered \cup {"Ghost"} \cup ObjectPrototype
\* Constructor arguments: "bad" makes a registered constructor throw.
Args == {"ok", "bad"}
\* Members calls name: "run" returns, "boom" throws (or its promise rejects),
\* "nosuch" is no function of any instance.
Methods == {"run", "boom", "nosuch"}
Endpoints == {"w1", "w2"}
\* The WebContents of the renderer whose proxy manager is modelled.
Renderer == "w1"
\* keyof ClassMap: the class names the renderer API accepts.
RendererClassNames == Registered

NoCtor == "undefined"
NoClass == "-"
NoMethod == "-"
NoArgs == "-"
NoEndpoint == "-"

\* registeredClassMap[className] (index.ts:110): own keys first, then the
\* prototype chain of the object literal.
ClassLookup(className) ==
    IF className \in Registered THEN className
    ELSE IF className \in ObjectPrototype THEN "Object"
    ELSE NoCtor

\* new ClassConstructor(...args) throws (index.ts:116). new Object(x) never does.
CtorThrows(ctor, args) == ctor \in Registered /\ args = "bad"

\* instance instanceof EventTarget (index.ts:127, 150)
IsEventTarget(instance) == instance.cls \in EventTargetClasses

\* typeof instance[method] === 'function' (index.ts:177-178)
IsCallable(instance, method) ==
    instance.cls \in Registered /\ method \in {"run", "boom"}

\* methodFn.apply(instance, args) throws or returns a promise that rejects
\* (index.ts:183)
MethodThrows(instance, method) == method = "boom"

VARIABLES
    objectMap,       \* main: objectId -> instance with its metadata
    singletonMap,    \* main: class name -> objectId
    nextObjectId,    \* main: next id to assign
    waiting,         \* endpoint -> its getSingleton request main has queued, not yet handled
    last,            \* the request main handled last, and its outcome
    issued,          \* history: the ids assigned to new instances, in order
    answered,        \* history: class name -> the latest successful getSingleton answer
    proxies,         \* renderer: the proxies alive (not garbage collected), by identity
    nextProxy,       \* renderer: identity of the next proxy created
    proxyObjectMap,  \* renderer: objectMap, objectId -> WeakRef (identity of its proxy)
    singletonProxyMap, \* renderer: class name -> proxy, strongly held
    toMain,          \* IPC: FIFO of the renderer's requests main has not handled
    toRenderer,      \* IPC: FIFO of main's answers the renderer has not resumed on
    lastCall,        \* renderer: the API call made in the step just taken
    returned,        \* history: class name -> proxies getSingleton(Sync) returned
    lastDispatch,    \* main: the latest dispatchEvent call on an instance, and what it did
    swept,           \* history: objectId -> number of release messages of the renderer listing it
    retained         \* renderer: the member value renderer code read last and still holds

mainVars == <<objectMap, singletonMap, nextObjectId>>
histVars == <<issued, answered>>
rendererVars == <<proxies, nextProxy, proxyObjectMap, singletonProxyMap, lastCall, returned>>
ipcVars == <<toMain, toRenderer>>
registryHistVars == <<waiting, last, issued, answered>>
traceVars == <<lastDispatch, swept, retained>>
vars == <<objectMap, singletonMap, nextObjectId, waiting, last, issued, answered,
          proxies, nextProxy, proxyObjectMap, singletonProxyMap, toMain, toRenderer,
          lastCall, returned, lastDispatch, swept, retained>>

\* --------------------------------------------------------- main process
Result(err, objectId, isEventTarget, om, sm, next, created) ==
    [err |-> err, objectId |-> objectId, isEventTarget |-> isEventTarget,
     objectMap |-> om, singletonMap |-> sm, nextObjectId |-> next,
     created |-> created]

\* Variant: the id is the lowest one objectMap does not hold.
handleObjectCreation_ReuseId(om, sm, next, sender, className, args) ==
    LET ctor == ClassLookup(className) IN
    IF ctor = NoCtor
    THEN Result("UnknownClass", 0, FALSE, om, sm, next, FALSE)
    ELSE IF CtorThrows(ctor, args)
    THEN Result("ConstructionFailed", 0, FALSE, om, sm, next, FALSE)
    ELSE LET instance == [cls |-> ctor, sender |-> sender]
             objectId == CHOOSE i \in 1..next :
                            /\ i \notin DOMAIN om
                            /\ \A j \in 1..(i - 1) : j \in DOMAIN om
         IN Result("none", objectId, IsEventTarget(instance),
                   (objectId :> instance) @@ om, sm, next + 1, TRUE)

\* Variant: the id is taken before the constructor runs.
handleObjectCreation_IdFirst(om, sm, next, sender, className, args) ==
    LET ctor == ClassLookup(className) IN
    IF ctor = NoCtor
    THEN Result("UnknownClass", 0, FALSE, om, sm, next, FALSE)
    ELSE IF CtorThrows(ctor, args)
    THEN Result("ConstructionFailed", 0, FALSE, om, sm, next + 1, FALSE)
    ELSE LET instance == [cls |-> ctor, sender |-> sender]
             objectId == next
         IN Result("none", objectId, IsEventTarget(instance),
                   (objectId :> instance) @@ om, sm, next + 1, TRUE)

\* handleObjectCreation (index.ts:105-133)
handleObjectCreation(om, sm, next, sender, className, args) ==
    LET ctor == ClassLookup(className) IN
    IF ctor = NoCtor
    THEN Result("UnknownClass", 0, FALSE, om, sm, next, FALSE)
    ELSE IF CtorThrows(ctor, args)
    THEN Result("ConstructionFailed", 0, FALSE, om, sm, next, FALSE)
    ELSE LET instance == [cls |-> ctor, sender |-> sender]
             objectId == next
         IN Result("none", objectId, IsEventTarget(instance),
                   (objectId :> instance) @@ om, sm, next + 1, TRUE)

\* singletonMap[className] !== undefined (index.ts:146-147): an inherited
\* name reads as a function, which is no key of objectMap.
SingletonBound(om, sm, className) ==
    /\ className \in DOMAIN sm
    /\ sm[className] \in DOMAIN om

\* Variant: the endpoint that asks for a bound singleton becomes its sender.
handleGetSingleton_Adopt(om, sm, next, sender, className, args) ==
    IF SingletonBound(om, sm, className)
    THEN Result("none", sm[className], IsEventTarget(om[sm[className]]),
                [om EXCEPT ![sm[className]].sender = sender], sm, next, FALSE)
    ELSE LET r == handleObjectCreation(om, sm, next, sender, className, args) IN
         IF r.err # "none" THEN r
         ELSE [r EXCEPT !.singletonMap = (className :> r.objectId) @@ sm]

\* handleGetSingleton (index.ts:140-162)
handleGetSingleton(om, sm, next, sender, className, args) ==
    IF SingletonBound(om, sm, className)
    THEN Result("none", sm[className], IsEventTarget(om[sm[className]]),
                om, sm, next, FALSE)
    ELSE LET r == handleObjectCreation(om, sm, next, sender, className, args) IN
         IF r.err # "none" THEN r
         ELSE [r EXCEPT !.singletonMap = (className :> r.objectId) @@ sm]

\* Variant: the member is looked up before the instance is checked.
handleMethodCall_LookupFirst(om, sm, next, objectId, method) ==
    IF objectId \notin DOMAIN om \/ ~IsCallable(om[objectId], method)
    THEN Result("MethodNotFound", 0, FALSE, om, sm, next, FALSE)
    ELSE IF MethodThrows(om[objectId], method)
    THEN Result("MethodInvocationFailed", 0, FALSE, om, sm, next, FALSE)
    ELSE Result("none", objectId, FALSE, om, sm, next, FALSE)

\* Variant: an exception of the method is caught and the call is answered.
handleMethodCall_Swallow(om, sm, next, objectId, method) ==
    IF objectId \notin DOMAIN om
    THEN Result("ObjectNotFound", 0, FALSE, om, sm, next, FALSE)
    ELSE IF ~IsCallable(om[objectId], method)
    THEN Result("MethodNotFound", 0, FALSE, om, sm, next, FALSE)
    ELSE Result("none", objectId, FALSE, om, sm, next, FALSE)

\* handleMethodCall (index.ts:167-184)
handleMethodCall(om, sm, next, objectId, method) ==
    IF objectId \notin DOMAIN om
    THEN Result("ObjectNotFound", 0, FALSE, om, sm, next, FALSE)
    ELSE IF ~IsCallable(om[objectId], method)
    THEN Result("MethodNotFound", 0, FALSE, om, sm, next, FALSE)
    ELSE IF MethodThrows(om[objectId], method)
    THEN Result("MethodInvocationFailed", 0, FALSE, om, sm, next, FALSE)
    ELSE Result("none", objectId, FALSE, om, sm, next, FALSE)

\* delete objectMap[objectId] for each listed id (index.ts:189-193)
RECURSIVE DeleteAll(_, _)
DeleteAll(om, objectIds) ==
    IF objectIds = <<>> THEN om
    ELSE DeleteAll([i \in DOMAIN om \ {Head(objectIds)} |-> om[i]], Tail(objectIds))

\* Variant: the binding of a released singleton is removed with it.
handleObjectRelease_Unbind(om, sm, next, objectIds) ==
    Result("none", 0, FALSE, DeleteAll(om, objectIds),
           [c \in {d \in DOMAIN sm : \A k \in DOMAIN objectIds : sm[d] # objectIds[k]} |-> sm[c]],
           next, FALSE)

\* Variant: the loop stops after the first id it removes.
handleObjectRelease_FirstOnly(om, sm, next, objectIds) ==
    LET bound == {k \in DOMAIN objectIds : objectIds[k] \in DOMAIN om} IN
    IF bound = {} THEN Result("none", 0, FALSE, om, sm, next, FALSE)
    ELSE LET k == CHOOSE k \in bound : \A l \in bound : k <= l
         IN Result("none", 0, FALSE, DeleteAll(om, <<objectIds[k]>>), sm, next, FALSE)

\* handleObjectRelease (index.ts:189-193)
handleObjectRelease(om, sm, next, objectIds) ==
    Result("none", 0, FALSE, DeleteAll(om, objectIds), sm, next, FALSE)

\* ------------------------------------------------------ event forwarding
\* Events application code raises on an instance: new CustomEvent(type,
\* { detail }). `raises` lists the events the listeners of the instance raise
\* on the same instance, by instance.dispatchEvent, while this event is
\* dispatched to them.
LeafEvents ==
    {[type |-> "tick", detail |-> "n1", raises |-> <<>>],
     [type |-> "tock", detail |-> "n2", raises |-> <<>>]}

RECURSIVE EventsOfDepth(_)
EventsOfDepth(d) ==
    IF d = 0 THEN LeafEvents
    ELSE {[e EXCEPT !.raises = r] :
            e \in LeafEvents,
            r \in {<<>>} \cup {<<n>> : n \in EventsOfDepth(d - 1)}}

Events == EventsOfDepth(MaxNesting)

\* What metadata.sender is at the time of a dispatch: "alive", isDestroyed()
\* is false and send delivers; "disposed", isDestroyed() is false and send
\* throws (the WebContents has lost its render frame); "destroyed",
\* isDestroyed() is true (index.ts:212-213).
SenderStatus == {"alive", "disposed", "destroyed"}

\* The trace of one call of instance.dispatchEvent with the calls nested in
\* it: `raised`, the events in the order they were raised; `done`, the
\* positions in `raised` of the events whose local dispatch has returned;
\* `sent`, the messages handed to sender.send in order, each with the position
\* `of` of its event and whether that event was in `done` by then; `warned`,
\* the positions of the events whose forwarding failed and was logged;
\* `threw`, an error reached the code that raised an event.
Trace(raised, done, sent, warned, threw) ==
    [raised |-> raised, done |-> done, sent |-> sent, warned |-> warned,
     threw |-> threw]

\* sender.send(IPC_CHANNEL, { type: 'event', ... }) (index.ts:213-218)
EventMessage(metadata, event, of, afterLocal) ==
    [to |-> metadata.sender, type |-> "event", objectId |-> metadata.objectId,
     eventType |-> event.type, detail |-> event.detail,
     of |-> of, afterLocal |-> afterLocal]

RECURSIVE overrideDispatchEvent(_, _, _, _)
RECURSIVE originalDispatchEvent(_, _, _, _)

\* originalDispatchEvent(event) (index.ts:204, 208): EventTarget runs the
\* listeners, which raise the events of `raises` through the overridden
\* dispatchEvent of the instance.
originalDispatchEvent(metadata, status, raises, trace) ==
    IF raises = <<>> THEN trace
    ELSE originalDispatchEvent(metadata, status, Tail(raises),
             overrideDispatchEvent(metadata, status, Head(raises), trace))

\* Variant: the message is sent before the listeners run.
overrideDispatchEvent_SendFirst(metadata, status, event, trace) ==
    LET k == Len(trace.raised) + 1
        entered == [trace EXCEPT
                       !.raised = Append(@, [type |-> event.type, detail |-> event.detail])]
        forwarded ==
            IF status = "destroyed" THEN entered
            ELSE IF status = "disposed" THEN [entered EXCEPT !.warned = Append(@, k)]
            ELSE [entered EXCEPT
                     !.sent = Append(@, EventMessage(metadata, event, k, k \in entered.done))]
        listened == originalDispatchEvent(metadata, status, event.raises, forwarded)
    IN [listened EXCEPT !.done = @ \cup {k}]

\* Variant: no try/catch around the send.
overrideDispatchEvent_NoCatch(metadata, status, event, trace) ==
    LET k == Len(trace.raised) + 1
        entered == [trace EXCEPT
                       !.raised = Append(@, [type |-> event.type, detail |-> event.detail])]
        listened == originalDispatchEvent(metadata, status, event.raises, entered)
        local == [listened EXCEPT !.done = @ \cup {k}]
    IN IF status = "destroyed" THEN local
       ELSE IF status = "disposed" THEN [local EXCEPT !.threw = TRUE]
       ELSE [local EXCEPT
                !.sent = Append(@, EventMessage(metadata, event, k, k \in local.done))]

\* The dispatchEvent that overrideDispatchEvent installs on an EventTarget
\* instance (index.ts:206-225): the original dispatchEvent first, then the
\* message to metadata.sender unless it is destroyed, a failure of the send
\* caught and logged, and the result of the original returned.
overrideDispatchEvent(metadata, status, event, trace) ==
    LET k == Len(trace.raised) + 1
        entered == [trace EXCEPT
                       !.raised = Append(@, [type |-> event.type, detail |-> event.detail])]
        listened == originalDispatchEvent(metadata, status, event.raises, entered)
        local == [listened EXCEPT !.done = @ \cup {k}]
    IN IF status = "destroyed" THEN local
       ELSE IF status = "disposed" THEN [local EXCEPT !.warned = Append(@, k)]
       ELSE [local EXCEPT
                !.sent = Append(@, EventMessage(metadata, event, k, k \in local.done))]

\* A call of instance.dispatchEvent by application code and its trace.
Dispatched(objectId, sender, status, trace) ==
    [objectId |-> objectId, sender |-> sender, status |-> status, trace |-> trace]

NoDispatch == Dispatched(0, NoEndpoint, "alive", Trace(<<>>, {}, <<>>, <<>>, FALSE))

\* ------------------------------------------------------------- requests
\* A request as the IPC channel carries it (common/types: CreateObjectRequest,
\* GetSingletonRequest, CallMethodRequest, ReleaseObjectsMessage). Two history
\* fields ride along with a getSingleton request while it waits: `early`, no
\* singleton of the class was bound when it arrived, and `seen`, the id another
\* early getSingleton request of the same class was answered with meanwhile
\* (0: none yet).
Request(type, className, args, objectId, method, objectIds, early) ==
    [type |-> type, className |-> className, args |-> args,
     objectId |-> objectId, method |-> method, objectIds |-> objectIds,
     early |-> early, seen |-> 0]

NoRequest == Request("none", NoClass, NoArgs, 0, NoMethod, <<>>, FALSE)

\* The members of the API object the preload script exposes as
\* window.__electronObjProxy (index.ts:277-298).
ApiMembers == {"invoke", "send", "onEvent"}

\* A call into the proxy manager and how it went on. For getSingleton and
\* getSingletonSync: "cached", the proxy of singletonProxyMap was returned;
\* "sent", a request went to main; "TypeError", the call threw before anything
\* was sent. For dispatchEvent, run by the api.onEvent listener: the message,
\* the proxy an event was dispatched on (0: none) and the events dispatched.
Call(fn, className, args, outcome, proxy) ==
    [fn |-> fn, className |-> className, args |-> args, outcome |-> outcome,
     proxy |-> proxy, objectId |-> 0, eventType |-> "-", detail |-> "-",
     dispatched |-> <<>>]

EventCall(objectId, eventType, detail, proxy, dispatched) ==
    [Call("dispatchEvent", NoClass, NoArgs, "returned", proxy) EXCEPT
        !.objectId = objectId, !.eventType = eventType, !.detail = detail,
        !.dispatched = dispatched]

NoCall == Call("none", NoClass, NoArgs, "none", 0)

\* A value the get trap of a proxy returns (proxy-manager.ts:57-95):
\* "remote", the async function that closes over objectId and prop
\* (proxy-manager.ts:75-82); "bound", a function of the target bound to it
\* (proxy-manager.ts:72); "inherited", what methodCache itself inherits from
\* Object.prototype; "undefined". `proxy` and `made` give the function its
\* identity: the proxy whose trap made it and how many functions that trap
\* had made for the name by then.
Fn(kind, proxy, objectId, method, made) ==
    [kind |-> kind, proxy |-> proxy, objectId |-> objectId, method |-> method,
     made |-> made]

NoFunction == Fn("undefined", 0, 0, NoMethod, 0)

\* A member access or a call of a member value by renderer code.
MemberCall(fn, proxy, member, args, value, outcome) ==
    [Call(fn, NoClass, args, outcome, proxy) EXCEPT !.objectId = value.objectId]
    @@ [member |-> member, value |-> value]

\* The waiting requests after the getSingleton request `req` of endpoint
\* `sender` was answered with `err` and `objectId`.
Overtaken(w, sender, req, err, objectId) ==
    [e \in Endpoints |->
        IF e = sender THEN NoRequest
        ELSE IF /\ w[e] # NoRequest /\ w[e].early /\ w[e].seen = 0
                /\ w[e].className = req.className
                /\ req.early /\ err = "none"
             THEN [w[e] EXCEPT !.seen = objectId]
             ELSE w[e]]

\* handleInvokeRequest / handleSendRequest (index.ts:58-100); event.sender
\* is the endpoint the request came from.
Dispatch(om, sm, next, sender, req) ==
    CASE req.type = "new" ->
           handleObjectCreation(om, sm, next, sender, req.className, req.args)
      [] req.type = "getSingleton" ->
           handleGetSingleton(om, sm, next, sender, req.className, req.args)
      [] req.type = "call" ->
           handleMethodCall(om, sm, next, req.objectId, req.method)
      [] req.type = "release" ->
           handleObjectRelease(om, sm, next, req.objectIds)

Range(seq) == {seq[k] : k \in DOMAIN seq}

\* The ids of a set as an array in ascending order.
RECURSIVE Ascending(_)
Ascending(ids) ==
    IF ids = {} THEN <<>>
    ELSE LET m == CHOOSE i \in ids : \A j \in ids : i <= j
         IN <<m>> \o Ascending(ids \ {m})

\* Arrays of object ids a release message may carry.
IdArrays == {Ascending(ids) : ids \in SUBSET (1..MaxId)}

\* Main runs the handler of `req` to completion and records the outcome.
\* `again`: a release message repeating the one handled just before it;
\* `retry`: a getSingleton request for the class whose construction failed in
\* the request handled just before it.
Handle(sender, req) ==
    LET r == Dispatch(objectMap, singletonMap, nextObjectId, sender, req) IN
    /\ objectMap' = r.objectMap
    /\ singletonMap' = r.singletonMap
    /\ nextObjectId' = r.nextObjectId
    /\ issued' = IF r.created THEN Append(issued, r.objectId) ELSE issued
    /\ answered' = IF req.type = "getSingleton" /\ r.err = "none"
                   THEN [answered EXCEPT ![req.className] =
                           [objectId |-> r.objectId, isEventTarget |-> r.isEventTarget]]
                   ELSE answered
    /\ last' = [req |-> req, err |-> r.err, objectId |-> r.objectId,
                isEventTarget |-> r.isEventTarget, created |-> r.created,
                again |-> /\ req.type = "release"
                          /\ last.req.type = "release"
                          /\ last.req.objectIds = req.objectIds,
                retry |-> /\ req.type = "getSingleton"
                          /\ last.req.type = "getSingleton"
                          /\ last.req.className = req.className
                          /\ last.err = "ConstructionFailed"]

\* Requests that may construct wait for a free id.
CanConstruct ==
    nextObjectId + Cardinality({e \in Endpoints : waiting[e] # NoRequest}) <= MaxId

Init ==
    /\ objectMap = <<>>
    /\ singletonMap = <<>>
    /\ nextObjectId = 1
    /\ waiting = [e \in Endpoints |-> NoRequest]
    /\ last = [req |-> NoRequest, err |-> "none", objectId |-> 0,
               isEventTarget |-> FALSE, created |-> FALSE, again |-> FALSE,
               retry |-> FALSE]
    /\ issued = <<>>
    /\ answered = [c \in ClassNames |-> [objectId |-> 0, isEventTarget |-> FALSE]]
    /\ proxies = <<>>
    /\ nextProxy = 1
    /\ proxyObjectMap = <<>>
    /\ singletonProxyMap = <<>>
    /\ toMain = <<>>
    /\ toRenderer = <<>>
    /\ lastCall = NoCall
    /\ lastDispatch = NoDispatch
    /\ swept = [objectId \in 1..MaxId |-> 0]
    /\ retained = NoFunction
    /\ returned = [c \in RendererClassNames |-> {}]

\* A create request of endpoint e is handled (ipcMain.handle, type 'new').
Create(e) ==
    \E className \in ClassNames, args \in Args :
        /\ CanConstruct
        /\ Handle(e, Request("new", className, args, 0, NoMethod, <<>>, FALSE))
        /\ UNCHANGED <<traceVars, waiting, rendererVars, ipcVars>>

\* A getSingleton request of endpoint e reaches main's queue. `early`
\* records that no singleton of the class had been bound by then.
ArriveGetSingleton(e) ==
    \E className \in ClassNames, args \in Args :
        /\ waiting[e] = NoRequest
        /\ CanConstruct
        /\ waiting' = [waiting EXCEPT ![e] =
                         Request("getSingleton", className, args, 0, NoMethod, <<>>,
                                 className \notin DOMAIN singletonMap)]
        /\ UNCHANGED <<traceVars, mainVars, last, histVars, rendererVars, ipcVars>>

\* Main handles the waiting getSingleton request of endpoint e
\* (ipcMain.handle, type 'getSingleton').
GetSingleton(e) ==
    /\ waiting[e] # NoRequest
    /\ Handle(e, waiting[e])
    /\ waiting' = Overtaken(waiting, e, waiting[e], last'.err, last'.objectId)
    /\ UNCHANGED <<traceVars, rendererVars, ipcVars>>

\* A call request is handled (ipcMain.handle, type 'call').
CallMethod ==
    \E objectId \in 1..MaxId, method \in Methods :
        /\ Handle(NoEndpoint, Request("call", NoClass, NoArgs, objectId, method, <<>>, FALSE))
        /\ UNCHANGED <<traceVars, waiting, rendererVars, ipcVars>>

\* A release message is handled (ipcMain.on, type 'release').
Release ==
    \E objectIds \in IdArrays :
        /\ Handle(NoEndpoint, Request("release", NoClass, NoArgs, 0, NoMethod, objectIds, FALSE))
        /\ UNCHANGED <<traceVars, waiting, rendererVars, ipcVars>>

Next ==
    \/ \E e \in Endpoints :
          \/ Create(e)
          \/ ArriveGetSingleton(e)
          \/ GetSingleton(e)
    \/ CallMethod
    \/ Release

Spec == Init /\ [][Next]_vars

\* The requests that put instances and bindings into the registry or take
\* instances out of it.
NextLifetime ==
    \/ \E e \in Endpoints :
          \/ Create(e)
          \/ ArriveGetSingleton(e)
          \/ GetSingleton(e)
    \/ Release

SpecLifetime == Init /\ [][NextLifetime]_vars

\* Application code of the main process raises an event on an EventTarget
\* instance the registry holds: instance.dispatchEvent(event) (index.ts:206-225),
\* metadata being what handleObjectCreation attached (index.ts:120-121).
raiseEvent ==
    \E objectId \in DOMAIN objectMap, event \in Events, status \in SenderStatus :
        /\ IsEventTarget(objectMap[objectId])
        /\ LET metadata == [objectId |-> objectId, sender |-> objectMap[objectId].sender]
           IN lastDispatch' =
                 Dispatched(objectId, metadata.sender, status,
                            overrideDispatchEvent(metadata, status, event,
                                                  Trace(<<>>, {}, <<>>, <<>>, FALSE)))
        /\ UNCHANGED <<mainVars, registryHistVars, rendererVars, ipcVars, swept, retained>>

\* The registry creating instances for its endpoints, and the instances
\* raising events.
NextEvents ==
    \/ \E e \in Endpoints : Create(e)
    \/ raiseEvent

SpecEvents == Init /\ [][NextEvents]_vars

\* Application code of the main process raises an event whose listeners raise
\* no event themselves.
raiseSimpleEvent ==
    \E objectId \in DOMAIN objectMap, event \in LeafEvents, status \in SenderStatus :
        /\ IsEventTarget(objectMap[objectId])
        /\ LET metadata == [objectId |-> objectId, sender |-> objectMap[objectId].sender]
           IN lastDispatch' =
                 Dispatched(objectId, metadata.sender, status,
                            overrideDispatchEvent(metadata, status, event,
                                                  Trace(<<>>, {}, <<>>, <<>>, FALSE)))
        /\ UNCHANGED <<mainVars, registryHistVars, rendererVars, ipcVars, swept, retained>>

\* The endpoints creating instances and asking for singletons, and the
\* instances raising events.
NextSharedEvents ==
    \/ \E e \in Endpoints :
          \/ Create(e)
          \/ ArriveGetSingleton(e)
          \/ GetSingleton(e)
    \/ raiseSimpleEvent

SpecSharedEvents == Init /\ [][NextSharedEvents]_vars

\* ------------------------------------------------------ renderer process
\* createProxyFromResponse (proxy-manager.ts:46-101): a new Proxy object of
\* its own identity, registered in objectMap under objectId through a WeakRef
\* (an entry already there is overwritten). The caller holds the proxy.
createProxyFromResponse(px, next, pom, objectId, isEventTarget) ==
    [proxy |-> next,
     proxies |-> (next :> [objectId |-> objectId, isEventTarget |-> isEventTarget,
                           held |-> TRUE, methodCache |-> <<>>]) @@ px,
     nextProxy |-> next + 1,
     proxyObjectMap |-> (objectId :> next) @@ pom]

\* Variant: every entry counts as cleared.
Cleared_All(px, pom) == DOMAIN pom

\* weakRef.deref() is undefined (proxy-manager.ts:260)
Cleared(px, pom) == {objectId \in DOMAIN pom : pom[objectId] \notin DOMAIN px}

\* Variant: one release message for each id.
RECURSIVE releaseObjects_OnePerId(_, _, _)
releaseObjects_OnePerId(pom, queue, objectIds) ==
    IF objectIds = <<>>
    THEN [proxyObjectMap |-> pom, toMain |-> queue]
    ELSE releaseObjects_OnePerId(
             [i \in DOMAIN pom \ {Head(objectIds)} |-> pom[i]],
             Append(queue, Request("release", NoClass, NoArgs, 0, NoMethod,
                                   <<Head(objectIds)>>, FALSE)),
             Tail(objectIds))

\* Variant: the entries are deleted, no release message is sent.
releaseObjects_NoSend(pom, queue, objectIds) ==
    IF objectIds = <<>>
    THEN [proxyObjectMap |-> pom, toMain |-> queue]
    ELSE [proxyObjectMap |-> [i \in DOMAIN pom \ Range(objectIds) |-> pom[i]],
          toMain |-> queue]

\* Variant: the release message is sent, the entries stay in objectMap.
releaseObjects_KeepEntries(pom, queue, objectIds) ==
    IF objectIds = <<>>
    THEN [proxyObjectMap |-> pom, toMain |-> queue]
    ELSE [proxyObjectMap |-> pom,
          toMain |-> Append(queue, Request("release", NoClass, NoArgs, 0, NoMethod,
                                           objectIds, FALSE))]

\* releaseObjects (proxy-manager.ts:233-248): the entries are deleted and one
\* release message is sent; nothing happens for an empty array.
releaseObjects(pom, queue, objectIds) ==
    IF objectIds = <<>>
    THEN [proxyObjectMap |-> pom, toMain |-> queue]
    ELSE [proxyObjectMap |-> [i \in DOMAIN pom \ Range(objectIds) |-> pom[i]],
          toMain |-> Append(queue, Request("release", NoClass, NoArgs, 0, NoMethod,
                                           objectIds, FALSE))]

\* What main answers an invoke with (ipcRenderer.invoke resolves or rejects).
Answer(req, outcome) ==
    [type |-> req.type, className |-> req.className, err |-> outcome.err,
     objectId |-> outcome.objectId, isEventTarget |-> outcome.isEventTarget]

\* Requests and answers in flight that end in a new object or a new proxy.
ObjectRequests(queue) ==
    {k \in DOMAIN queue : queue[k].type \in {"new", "getSingleton"}}

CanSend == Len(toMain) < MaxInFlight
CanRequestObject ==
    /\ CanSend
    /\ nextObjectId + Cardinality(ObjectRequests(toMain)) <= MaxId
    /\ nextProxy + Cardinality(ObjectRequests(toMain))
                 + Cardinality(ObjectRequests(toRenderer)) <= MaxProxies

\* createObject up to its await (proxy-manager.ts:110-119)
createObject ==
    \E className \in RendererClassNames, args \in Args :
        /\ CanRequestObject
        /\ toMain' = Append(toMain, Request("new", className, args, 0, NoMethod, <<>>, FALSE))
        /\ lastCall' = NoCall
        /\ UNCHANGED <<traceVars, mainVars, registryHistVars, proxies, nextProxy, proxyObjectMap,
                       singletonProxyMap, returned, toRenderer>>

\* Variant: the cache is used only by a call that passes no arguments of its
\* own; any other call asks main again.
ReturnCached_AskAgain(fn, className, args) ==
    /\ className \in DOMAIN singletonProxyMap
    /\ IF args = "ok"
       THEN /\ proxies' = [proxies EXCEPT ![singletonProxyMap[className]].held = TRUE]
            /\ returned' = [returned EXCEPT ![className] = @ \cup {singletonProxyMap[className]}]
            /\ lastCall' = Call(fn, className, args, "cached", singletonProxyMap[className])
            /\ UNCHANGED toMain
       ELSE /\ CanSend
            /\ toMain' = Append(toMain, Request("getSingleton", className, args, 0,
                                                NoMethod, <<>>, FALSE))
            /\ lastCall' = Call(fn, className, args, "sent", 0)
            /\ UNCHANGED <<proxies, returned>>
    /\ UNCHANGED <<traceVars, mainVars, registryHistVars, toRenderer, nextProxy, proxyObjectMap,
                   singletonProxyMap>>

\* The cached singleton proxy is returned to the caller
\* (proxy-manager.ts:145-147, 183-185).
ReturnCached(fn, className, args) ==
    /\ className \in DOMAIN singletonProxyMap
    /\ proxies' = [proxies EXCEPT ![singletonProxyMap[className]].held = TRUE]
    /\ returned' = [returned EXCEPT ![className] = @ \cup {singletonProxyMap[className]}]
    /\ lastCall' = Call(fn, className, args, "cached", singletonProxyMap[className])
    /\ UNCHANGED <<traceVars, mainVars, registryHistVars, ipcVars, nextProxy, proxyObjectMap,
                   singletonProxyMap>>

\* getSingleton up to its await (proxy-manager.ts:138-154)
getSingleton ==
    \E className \in RendererClassNames, args \in Args :
        \/ ReturnCached("getSingleton", className, args)
        \/ /\ className \notin DOMAIN singletonProxyMap
           /\ CanRequestObject
           /\ toMain' = Append(toMain, Request("getSingleton", className, args, 0,
                                               NoMethod, <<>>, FALSE))
           /\ lastCall' = Call("getSingleton", className, args, "sent", 0)
           /\ UNCHANGED <<traceVars, mainVars, registryHistVars, proxies, nextProxy, proxyObjectMap,
                          singletonProxyMap, returned, toRenderer>>

\* Main handles the renderer's oldest request (index.ts:58-100) and answers
\* an invoke; a release message gets no answer.
ipcMainHandle ==
    /\ toMain # <<>>
    /\ Len(toRenderer) < MaxInFlight
    /\ Handle(Renderer, Head(toMain))
    /\ toMain' = Tail(toMain)
    /\ toRenderer' = IF Head(toMain).type = "release" THEN toRenderer
                     ELSE Append(toRenderer, Answer(Head(toMain), last'))
    /\ lastCall' = NoCall
    /\ UNCHANGED <<traceVars, waiting, proxies, nextProxy, proxyObjectMap, singletonProxyMap,
                   returned>>

\* Variant: the singleton proxy is registered in objectMap only, so nothing
\* but the caller holds it strongly.
resume_WeakSingleton ==
    /\ toRenderer # <<>>
    /\ LET a == Head(toRenderer)
           r == createProxyFromResponse(proxies, nextProxy, proxyObjectMap,
                                        a.objectId, a.isEventTarget)
       IN /\ toRenderer' = Tail(toRenderer)
          /\ IF a.err # "none" \/ a.type = "call"
             THEN UNCHANGED <<proxies, nextProxy, proxyObjectMap, returned>>
             ELSE /\ proxies' = r.proxies
                  /\ nextProxy' = r.nextProxy
                  /\ proxyObjectMap' = r.proxyObjectMap
                  /\ IF a.type = "getSingleton"
                     THEN returned' = [returned EXCEPT ![a.className] = @ \cup {r.proxy}]
                     ELSE UNCHANGED returned
    /\ lastCall' = NoCall
    /\ UNCHANGED <<traceVars, mainVars, registryHistVars, toMain, singletonProxyMap>>

\* The renderer resumes after the await of createObject or getSingleton
\* (proxy-manager.ts:121-126, 156-164); a rejected invoke throws out of it.
resume ==
    /\ toRenderer # <<>>
    /\ LET a == Head(toRenderer)
           r == createProxyFromResponse(proxies, nextProxy, proxyObjectMap,
                                        a.objectId, a.isEventTarget)
       IN /\ toRenderer' = Tail(toRenderer)
          /\ IF a.err # "none" \/ a.type = "call"
             THEN UNCHANGED <<proxies, nextProxy, proxyObjectMap, singletonProxyMap, returned>>
             ELSE /\ proxies' = r.proxies
                  /\ nextProxy' = r.nextProxy
                  /\ proxyObjectMap' = r.proxyObjectMap
                  /\ IF a.type = "getSingleton"
                     THEN /\ singletonProxyMap' = (a.className :> r.proxy) @@ singletonProxyMap
                          /\ returned' = [returned EXCEPT ![a.className] = @ \cup {r.proxy}]
                     ELSE UNCHANGED <<singletonProxyMap, returned>>
    /\ lastCall' = NoCall
    /\ UNCHANGED <<traceVars, mainVars, registryHistVars, toMain>>

\* Renderer code lets go of its reference to a proxy.
dropReference ==
    \E p \in DOMAIN proxies :
        /\ proxies[p].held
        /\ proxies' = [proxies EXCEPT ![p].held = FALSE]
        /\ lastCall' = NoCall
        /\ UNCHANGED <<traceVars, mainVars, registryHistVars, ipcVars, nextProxy, proxyObjectMap,
                       singletonProxyMap, returned>>

\* The garbage collector reclaims a proxy nothing holds strongly: neither
\* renderer code nor singletonProxyMap (proxy-manager.ts:36); the WeakRef in
\* objectMap does not keep it (proxy-manager.ts:30, 98).
garbageCollect ==
    \E p \in DOMAIN proxies :
        /\ ~proxies[p].held
        /\ p \notin Range(singletonProxyMap)
        /\ proxies' = [q \in DOMAIN proxies \ {p} |-> proxies[q]]
        /\ lastCall' = NoCall
        /\ UNCHANGED <<traceVars, mainVars, registryHistVars, ipcVars, nextProxy, proxyObjectMap,
                       singletonProxyMap, returned>>

\* cleanupObjects (proxy-manager.ts:256-269), run by setInterval
cleanupObjects ==
    /\ LET releasedObjectIds == Ascending(Cleared(proxies, proxyObjectMap))
           r == releaseObjects(proxyObjectMap, toMain, releasedObjectIds)
       IN /\ releasedObjectIds # <<>> => Len(toMain) < MaxInFlight
          /\ proxyObjectMap' = r.proxyObjectMap
          /\ toMain' = r.toMain
          /\ swept' = [objectId \in 1..MaxId |->
                         swept[objectId] +
                         Cardinality({k \in DOMAIN r.toMain \ DOMAIN toMain :
                                         objectId \in Range(r.toMain[k].objectIds)})]
    /\ lastCall' = NoCall
    /\ UNCHANGED <<lastDispatch, retained, mainVars, registryHistVars, toRenderer, proxies,
                   nextProxy, singletonProxyMap, returned>>

\* getSingletonSync (proxy-manager.ts:176-203). On a cache miss it calls
\* api.sendSync (proxy-manager.ts:188), which is no member of the API object
\* the preload script exposes (index.ts:277-298), so the call throws a
\* TypeError to the caller before any message leaves the renderer; main has no
\* case for the type 'getSingletonSync' either (index.ts:90-99).
getSingletonSync ==
    \E className \in RendererClassNames, args \in Args :
        \/ ReturnCached("getSingletonSync", className, args)
        \/ /\ className \notin DOMAIN singletonProxyMap
           /\ "sendSync" \notin ApiMembers
           /\ lastCall' = Call("getSingletonSync", className, args, "TypeError", 0)
           /\ UNCHANGED <<traceVars, mainVars, registryHistVars, ipcVars, proxies, nextProxy,
                          proxyObjectMap, singletonProxyMap, returned>>

\* Variant: the WeakRef is not checked for a reclaimed proxy.
dispatchEvent_NoDeref(px, pom, objectId, eventType, detail) ==
    IF objectId \notin DOMAIN pom
    THEN EventCall(objectId, eventType, detail, 0, <<>>)
    ELSE EventCall(objectId, eventType, detail, pom[objectId],
                   <<[type |-> eventType, detail |-> detail]>>)

\* dispatchEvent (proxy-manager.ts:212-226): the proxy objectMap refers to,
\* if it is alive and an EventTarget, gets one CustomEvent.
dispatchEvent(px, pom, objectId, eventType, detail) ==
    IF objectId \notin DOMAIN pom
    THEN EventCall(objectId, eventType, detail, 0, <<>>)
    ELSE IF pom[objectId] \notin DOMAIN px \/ ~px[pom[objectId]].isEventTarget
    THEN EventCall(objectId, eventType, detail, 0, <<>>)
    ELSE EventCall(objectId, eventType, detail, pom[objectId],
                   <<[type |-> eventType, detail |-> detail]>>)

\* An EventTarget instance main holds for the renderer raises an event, the
\* message reaches the renderer and the listener registered with api.onEvent
\* runs (proxy-manager.ts:275-279).
onEvent ==
    \E objectId \in DOMAIN objectMap, event \in LeafEvents :
        /\ IsEventTarget(objectMap[objectId])
        /\ objectMap[objectId].sender = Renderer
        /\ lastCall' = dispatchEvent(proxies, proxyObjectMap, objectId,
                                     event.type, event.detail)
        /\ UNCHANGED <<traceVars, mainVars, registryHistVars, ipcVars, proxies,
                       nextProxy, proxyObjectMap, singletonProxyMap, returned>>

\* Member names renderer code reads on a proxy: a method of the remote
\* class, 'then', a method of EventTarget and a name of Object.prototype.
Members == {"run", "then", "addEventListener"} \cup ObjectPrototype

\* The functions of the target: an EventTarget or an object literal
\* (proxy-manager.ts:48).
TargetFunctions(isEventTarget) ==
    (IF isEventTarget THEN {"addEventListener"} ELSE {}) \cup ObjectPrototype

\* methodCache[prop] (proxy-manager.ts:68, 87): an own entry, or what the
\* object literal inherits.
CacheRead(methodCache, proxy, prop) ==
    IF prop \in DOMAIN methodCache THEN methodCache[prop]
    ELSE IF prop \in ObjectPrototype THEN Fn("inherited", 0, 0, prop, 0)
    ELSE NoFunction

\* Variant: a new function at every access.
get_NoCache(stub, proxy, prop) ==
    IF prop = "then"
    THEN [value |-> NoFunction, methodCache |-> stub.methodCache]
    ELSE LET made == CacheRead(stub.methodCache, proxy, prop).made + 1
             value == IF prop \in TargetFunctions(stub.isEventTarget)
                      THEN Fn("bound", proxy, 0, prop, made)
                      ELSE Fn("remote", proxy, stub.objectId, prop, made)
         IN [value |-> value, methodCache |-> (prop :> value) @@ stub.methodCache]

\* The get trap for a string property (proxy-manager.ts:57-91).
get(stub, proxy, prop) ==
    IF prop = "then"
    THEN [value |-> NoFunction, methodCache |-> stub.methodCache]
    ELSE IF CacheRead(stub.methodCache, proxy, prop) # NoFunction
    THEN [value |-> CacheRead(stub.methodCache, proxy, prop),
          methodCache |-> stub.methodCache]
    ELSE LET value == IF prop \in TargetFunctions(stub.isEventTarget)
                      THEN Fn("bound", proxy, 0, prop, 1)
                      ELSE Fn("remote", proxy, stub.objectId, prop, 1)
         IN [value |-> value, methodCache |-> (prop :> value) @@ stub.methodCache]

\* The call request of a remote function. `live` records whether the proxy
\* the function came from was alive when the request was sent.
CallRequest(objectId, method, args, live) ==
    Request("call", NoClass, args, objectId, method, <<>>, FALSE) @@ [live |-> live]

\* Variant: the function works through its proxy, and sends nothing once the
\* proxy is reclaimed.
remoteMethodCall_NeedsProxy(fn, px, queue, args) ==
    IF fn.proxy \in DOMAIN px
    THEN Append(queue, CallRequest(fn.objectId, fn.method, args, TRUE))
    ELSE queue

\* The body of a remote function (proxy-manager.ts:75-82): one api.invoke.
remoteMethodCall(fn, px, queue, args) ==
    Append(queue, CallRequest(fn.objectId, fn.method, args, fn.proxy \in DOMAIN px))

\* Renderer code reads a member of a proxy it holds and keeps the value.
getMember ==
    \E p \in DOMAIN proxies, prop \in Members :
        /\ proxies[p].held
        /\ LET r == get(proxies[p], p, prop)
           IN /\ proxies' = [proxies EXCEPT ![p].methodCache = r.methodCache]
              /\ retained' = r.value
              /\ lastCall' = MemberCall("get", p, prop, NoArgs, r.value, "returned")
        /\ UNCHANGED <<lastDispatch, swept, mainVars, registryHistVars, ipcVars, nextProxy,
                       proxyObjectMap, singletonProxyMap, returned>>

\* Renderer code calls the member value it holds.
invokeFunction ==
    \E args \in Args :
        /\ \/ /\ retained.kind = "remote"
              /\ CanSend
              /\ toMain' = remoteMethodCall(retained, proxies, toMain, args)
              /\ lastCall' = MemberCall("invoke", retained.proxy, retained.method, args,
                                        retained, "sent")
           \/ /\ retained.kind \in {"bound", "inherited"}
              /\ lastCall' = MemberCall("invoke", retained.proxy, retained.method, args,
                                        retained, "local")
              /\ UNCHANGED toMain
        /\ UNCHANGED <<traceVars, mainVars, registryHistVars, toRenderer, proxies, nextProxy,
                       proxyObjectMap, singletonProxyMap, returned>>

\* The renderer with the asynchronous API, main serving it.
NextAsync ==
    \/ createObject
    \/ getSingleton
    \/ ipcMainHandle
    \/ resume
    \/ dropReference
    \/ garbageCollect
    \/ cleanupObjects

SpecAsync == Init /\ [][NextAsync]_vars

\* The life of the proxies createObject returns: created, dropped by the
\* renderer code, reclaimed, swept and released.
NextTransient ==
    \/ createObject
    \/ ipcMainHandle
    \/ resume
    \/ dropReference
    \/ garbageCollect
    \/ cleanupObjects

\* setInterval keeps running cleanupObjects (proxy-manager.ts:272), ipcMain
\* keeps handling what the renderer sent (index.ts:237-238) and the awaits of
\* the renderer keep resuming.
SpecTransientFair ==
    /\ Init
    /\ [][NextTransient]_vars
    /\ WF_vars(cleanupObjects)
    /\ WF_vars(ipcMainHandle)
    /\ WF_vars(resume)

\* The state in which createObject(className, ["ok"]) has returned the first
\* proxy of the renderer to its caller: main has handled the request
\* (index.ts:105-133) and the renderer has made the proxy of the answer
\* (proxy-manager.ts:121-126).
InitStub ==
    \E className \in RendererClassNames :
        LET req == Request("new", className, "ok", 0, NoMethod, <<>>, FALSE)
            created == handleObjectCreation(<<>>, <<>>, 1, Renderer, className, "ok")
            r == createProxyFromResponse(<<>>, 1, <<>>, created.objectId,
                                         created.isEventTarget)
        IN /\ objectMap = created.objectMap
           /\ singletonMap = created.singletonMap
           /\ nextObjectId = created.nextObjectId
           /\ waiting = [e \in Endpoints |-> NoRequest]
           /\ last = [req |-> req, err |-> created.err, objectId |-> created.objectId,
                      isEventTarget |-> created.isEventTarget,
                      created |-> created.created, again |-> FALSE, retry |-> FALSE]
           /\ issued = <<created.objectId>>
           /\ answered = [c \in ClassNames |-> [objectId |-> 0, isEventTarget |-> FALSE]]
           /\ proxies = r.proxies
           /\ nextProxy = r.nextProxy
           /\ proxyObjectMap = r.proxyObjectMap
           /\ singletonProxyMap = <<>>
           /\ toMain = <<>>
           /\ toRenderer = <<>>
           /\ lastCall = NoCall
           /\ lastDispatch = NoDispatch
           /\ swept = [objectId \in 1..MaxId |-> 0]
           /\ returned = [c \in RendererClassNames |-> {}]
           /\ retained = NoFunction

\* Renderer code reading and calling the members of that proxy, until the
\* proxy is dropped, reclaimed, swept and released, and after.
NextStub ==
    \/ getMember
    \/ invokeFunction
    \/ ipcMainHandle
    \/ resume
    \/ dropReference
    \/ garbageCollect
    \/ cleanupObjects

SpecStub == InitStub /\ [][NextStub]_vars

\* The same with getSingletonSync.
NextSystem ==
    \/ NextAsync
    \/ getSingletonSync

SpecSystem == Init /\ [][NextSystem]_vars

\* The renderer with the asynchronous API, receiving events of main.
NextListening ==
    \/ NextAsync
    \/ onEvent

SpecListening == Init /\ [][NextListening]_vars
\* ------------------------------------------------------------ properties
\* A step in which main handled a request of the given type.
Handled(type) ==
    /\ last'.req.type = type
    /\ (last' # last \/ mainVars' # mainVars)

\* C1: every id assigned to a new instance is greater than every id assigned
\* before it, so no id is assigned twice, also after ids were released.
IssuedIdsIncrease ==
    \A i, j \in DOMAIN issued : i < j => issued[i] < issued[j]

\* C1 witness: an instance got its id after the first id had been released.
IssuedAfterRelease ==
    /\ last.created
    /\ Len(issued) >= 2
    /\ issued[Len(issued)] = last.objectId
    /\ issued[1] \notin DOMAIN objectMap

\* C2: a getSingleton request that arrived before its class was bound, and
\* was overtaken by another such request that got an id, is answered with that
\* same id and constructs nothing.
ConcurrentGetSingletonOnce ==
    [][\A e \in Endpoints :
          (waiting[e] # NoRequest /\ waiting'[e] = NoRequest /\ waiting[e].seen # 0)
          => /\ last'.err = "none"
             /\ last'.objectId = waiting[e].seen
             /\ ~last'.created]_vars

\* C3: a singleton binding, once set, keeps its id in every later state.
SingletonBindingKept ==
    [][\A c \in DOMAIN singletonMap :
          c \in DOMAIN singletonMap' /\ singletonMap'[c] = singletonMap[c]]_vars

\* C4: once a getSingleton request for a class was answered with an id, every
\* later getSingleton request for the class gets the same id and the same
\* isEventTarget flag, whatever its arguments, and constructs nothing.
LaterGetSingletonSameAnswer ==
    [][(Handled("getSingleton") /\ answered[last'.req.className].objectId # 0)
       => /\ last'.err = "none"
          /\ last'.objectId = answered[last'.req.className].objectId
          /\ last'.isEventTarget = answered[last'.req.className].isEventTarget
          /\ ~last'.created]_vars

\* C5: a call on an id objectMap does not hold fails with ObjectNotFound,
\* whatever the member; a call on a held id naming a member that is not
\* callable fails with MethodNotFound; a call on a held id naming a callable
\* member fails with neither.
CallMethodErrors ==
    [][Handled("call") =>
         LET objectId == last'.req.objectId
             method == last'.req.method
         IN /\ objectId \notin DOMAIN objectMap => last'.err = "ObjectNotFound"
            /\ (objectId \in DOMAIN objectMap /\ ~IsCallable(objectMap[objectId], method))
                 => last'.err = "MethodNotFound"
            /\ (objectId \in DOMAIN objectMap /\ IsCallable(objectMap[objectId], method))
                 => last'.err \notin {"ObjectNotFound", "MethodNotFound"}]_vars

\* C5 witness: a call on an id that was created and then released failed with
\* ObjectNotFound.
CallAfterReleaseNotFound ==
    /\ last.req.type = "call"
    /\ last.err = "ObjectNotFound"
    /\ last.req.objectId \in Range(issued)

\* C6: a release raises no error; repeating the release handled just before,
\* or releasing only ids objectMap does not hold, changes nothing in main.
ReleaseIdempotent ==
    [][Handled("release") =>
         /\ last'.err = "none"
         /\ last'.again => UNCHANGED mainVars
         /\ (Range(last'.req.objectIds) \cap DOMAIN objectMap = {})
              => UNCHANGED mainVars]_vars

\* C6 witness: a release of an id that had been assigned was repeated.
ReleaseRepeated ==
    /\ last.req.type = "release"
    /\ last.again
    /\ Range(last.req.objectIds) \cap Range(issued) # {}

\* C7: a create or getSingleton request naming a class that is no key of the
\* class map fails with UnknownClass and changes nothing in main.
UnknownClassRejected ==
    [][((Handled("new") \/ Handled("getSingleton"))
         /\ last'.req.className \notin Registered)
       => (last'.err = "UnknownClass" /\ UNCHANGED mainVars)]_vars

\* C8: when the constructor throws in a create or getSingleton request, the
\* request fails and objectMap, singletonMap and nextObjectId stay as they
\* were; a getSingleton request for the same class right after runs the
\* constructor again.
ConstructionFailureLeavesNoTrace ==
    [][(Handled("new") \/ Handled("getSingleton")) =>
         LET req == last'.req
             ctor == ClassLookup(req.className)
             constructs == /\ ctor # NoCtor
                           /\ req.type = "getSingleton"
                                => ~SingletonBound(objectMap, singletonMap, req.className)
         IN /\ (constructs /\ CtorThrows(ctor, req.args))
                 => last'.err = "ConstructionFailed"
            /\ last'.err = "ConstructionFailed"
                 => (UNCHANGED mainVars /\ ~last'.created)
            /\ last'.retry
                 => (last'.created \/ last'.err = "ConstructionFailed")]_vars

\* C8 witness: a getSingleton request constructed the singleton right after
\* the construction failed for the same class.
ConstructedAfterFailure ==
    /\ last.req.type = "getSingleton"
    /\ last.retry
    /\ last.created
\* C9: all calls of getSingleton and getSingletonSync for one class name
\* return the identical proxy, also calls made before the first answer arrived.
SameSingletonProxy ==
    \A c \in RendererClassNames : Cardinality(returned[c]) <= 1

\* C10: no two live proxies of the renderer carry the same object id.
OneLiveProxyPerId ==
    \A p, q \in DOMAIN proxies :
        p # q => proxies[p].objectId # proxies[q].objectId

\* C11: a call of getSingletonSync for a registered class, with arguments its
\* constructor accepts, gives the caller a live proxy that carries the id
\* singletonMap binds to the class.
GetSingletonSyncAnswered ==
    (lastCall.fn = "getSingletonSync" /\ lastCall.args = "ok")
    => /\ lastCall.proxy \in DOMAIN proxies
       /\ lastCall.className \in DOMAIN singletonMap
       /\ proxies[lastCall.proxy].objectId = singletonMap[lastCall.className]

\* C20: a call of getSingleton or getSingletonSync for a class that
\* singletonProxyMap holds sends nothing to main and returns the proxy held
\* there, whatever arguments it passes.
CachedSingletonSendsNothing ==
    [][(lastCall'.fn # "none" /\ lastCall'.className \in DOMAIN singletonProxyMap)
       => /\ toMain' = toMain
          /\ lastCall'.outcome = "cached"
          /\ lastCall'.proxy = singletonProxyMap[lastCall'.className]
          /\ singletonProxyMap' = singletonProxyMap]_vars

\* C20 witness: a call that passed arguments the constructor rejects got the
\* cached proxy while main was still busy with another request.
CachedDespiteArguments ==
    /\ lastCall.outcome = "cached"
    /\ lastCall.args = "bad"
    /\ lastCall.proxy = singletonProxyMap[lastCall.className]
    /\ toMain # <<>>

\* C12: no release message of the renderer lists an id that singletonMap
\* binds, and every id singletonMap binds is still held by objectMap.
SingletonNeverSwept ==
    /\ \A k \in DOMAIN toMain :
          toMain[k].type = "release"
          => Range(toMain[k].objectIds) \cap Range(singletonMap) = {}
    /\ \A c \in DOMAIN singletonMap : singletonMap[c] \in DOMAIN objectMap

\* C12 witness: a release message is on its way while a singleton is bound
\* of which the renderer got two proxies and one of them was reclaimed.
SweptBesideSingleton ==
    /\ \E k \in DOMAIN toMain : toMain[k].type = "release"
    /\ \E c \in DOMAIN singletonMap :
          \E p \in returned[c] : p \notin DOMAIN proxies

\* C19: a call of a member that throws fails with the error of the member,
\* and the instance stays in objectMap, with objectMap, singletonMap and
\* nextObjectId as they were.
MethodFailurePropagates ==
    [][Handled("call") =>
         LET objectId == last'.req.objectId
             method == last'.req.method
         IN (/\ objectId \in DOMAIN objectMap
             /\ IsCallable(objectMap[objectId], method)
             /\ MethodThrows(objectMap[objectId], method))
            => /\ last'.err = "MethodInvocationFailed"
               /\ objectId \in DOMAIN objectMap'
               /\ UNCHANGED mainVars]_vars

\* C19 witness: a call on a bound singleton failed with the error of the
\* member it named.
SingletonMethodFailed ==
    /\ last.req.type = "call"
    /\ last.err = "MethodInvocationFailed"
    /\ last.req.objectId \in Range(singletonMap)
    /\ last.req.objectId \in DOMAIN objectMap

\* C13: when the sender of an instance is alive, every event raised on the
\* instance has exactly one message in the trace, which carries the id of the
\* instance and the type and detail of the event, goes to the sender, and was
\* sent after the local dispatch of the event had returned.
EachEventForwardedOnce ==
    lastDispatch.status = "alive"
    => LET t == lastDispatch.trace IN
       /\ Len(t.sent) = Len(t.raised)
       /\ \A k \in DOMAIN t.raised :
             \E m \in DOMAIN t.sent :
                /\ t.sent[m].of = k
                /\ t.sent[m].type = "event"
                /\ t.sent[m].objectId = lastDispatch.objectId
                /\ t.sent[m].eventType = t.raised[k].type
                /\ t.sent[m].detail = t.raised[k].detail
                /\ t.sent[m].to = lastDispatch.sender
                /\ t.sent[m].afterLocal

\* C13 witness: an event and the event a listener raised during its dispatch
\* were both forwarded to the alive sender of a registered instance.
NestedEventForwarded ==
    /\ lastDispatch.status = "alive"
    /\ lastDispatch.objectId \in DOMAIN objectMap
    /\ Len(lastDispatch.trace.raised) >= 2
    /\ Len(lastDispatch.trace.sent) >= 2

\* C14: the messages of an instance are sent in the order in which their
\* events were raised, also the event a listener raises during a dispatch.
ForwardedInRaiseOrder ==
    LET t == lastDispatch.trace IN
    \A m, n \in DOMAIN t.sent : m < n => t.sent[m].of < t.sent[n].of

\* C15: when the sender is destroyed or the send throws, the local dispatch
\* of every event raised has returned, no error reached the code that raised
\* it, nothing was sent, and each failed send was logged once and not tried
\* again.
ForwardingFailureIsLocal ==
    lastDispatch.status # "alive"
    => LET t == lastDispatch.trace IN
       /\ t.done = DOMAIN t.raised
       /\ ~t.threw
       /\ t.sent = <<>>
       /\ lastDispatch.status = "disposed"
            => /\ Len(t.warned) = Len(t.raised)
               /\ \A k \in DOMAIN t.raised :
                     Cardinality({w \in DOMAIN t.warned : t.warned[w] = k}) = 1
       /\ lastDispatch.status = "destroyed" => t.warned = <<>>

\* C15 witness: the send threw for an event and for the event a listener had
\* raised during its dispatch.
NestedSendFailed ==
    /\ lastDispatch.status = "disposed"
    /\ Len(lastDispatch.trace.raised) >= 2
    /\ Len(lastDispatch.trace.warned) >= 2

\* C16: an event message for an id whose WeakRef in objectMap refers to a
\* proxy that is alive and an EventTarget dispatches exactly one event, with
\* the type and detail of the message, on that proxy; a message for an id with
\* no entry, a reclaimed proxy or a proxy that is no EventTarget dispatches
\* nothing; either way the tables and queues of the renderer stay as they were.
IncomingEventDispatched ==
    [][lastCall'.fn = "dispatchEvent" =>
         LET objectId == lastCall'.objectId
             listening == /\ objectId \in DOMAIN proxyObjectMap
                          /\ proxyObjectMap[objectId] \in DOMAIN proxies
                          /\ proxies[proxyObjectMap[objectId]].isEventTarget
         IN /\ listening
                 => /\ lastCall'.proxy = proxyObjectMap[objectId]
                    /\ lastCall'.dispatched =
                          <<[type |-> lastCall'.eventType, detail |-> lastCall'.detail]>>
            /\ ~listening
                 => /\ lastCall'.proxy = 0
                    /\ lastCall'.dispatched = <<>>
            /\ lastCall'.outcome = "returned"
            /\ UNCHANGED <<proxies, nextProxy, proxyObjectMap, singletonProxyMap,
                           returned, toMain, toRenderer>>]_vars

\* C16 witness: an event message for an id whose proxy had been reclaimed,
\* the entry still in objectMap, was dropped.
EventForReclaimedProxy ==
    /\ lastCall.fn = "dispatchEvent"
    /\ lastCall.objectId \in DOMAIN proxyObjectMap
    /\ proxyObjectMap[lastCall.objectId] \notin DOMAIN proxies
    /\ lastCall.dispatched = <<>>

\* C17: no id is listed by more than one release message of the renderer,
\* and a sweep that sends a message lists in it every id whose WeakRef it
\* found cleared, and no other id.
SweptExactlyOnce ==
    [][/\ \A objectId \in 1..MaxId : swept'[objectId] <= 1
       /\ swept' # swept
            => /\ \A objectId \in 1..MaxId :
                     swept'[objectId] - swept[objectId] =
                        IF objectId \in Cleared(proxies, proxyObjectMap) THEN 1 ELSE 0
               /\ Len(toMain') = Len(toMain) + 1
               /\ toMain'[Len(toMain')].type = "release"
               /\ Range(toMain'[Len(toMain')].objectIds) =
                     Cleared(proxies, proxyObjectMap)]_vars

\* C17 witness: the latest release message lists another id than the one an
\* earlier sweep listed, which main has released by now.
SweptInSeparateBatches ==
    /\ toMain # <<>>
    /\ toMain[Len(toMain)].type = "release"
    /\ \E objectId \in 1..MaxId :
          /\ swept[objectId] = 1
          /\ objectId \in Range(issued)
          /\ objectId \notin DOMAIN objectMap
          /\ \A k \in DOMAIN toMain : objectId \notin Range(toMain[k].objectIds)

\* C18: when the proxy objectMap of the renderer refers to under an id has
\* been reclaimed, main's objectMap eventually holds that id no more.
ReclaimedEventuallyReleased ==
    \A objectId \in 1..MaxId :
        (objectId \in Cleared(proxies, proxyObjectMap) /\ objectId \in DOMAIN objectMap)
        ~> (objectId \notin DOMAIN objectMap)

\* C18 witness: main has handled the release message of a sweep and no
\* longer holds an id the renderer once had a proxy for.
ReleasedAfterSweep ==
    /\ last.req.type = "release"
    /\ \E objectId \in Range(last.req.objectIds) :
          /\ swept[objectId] = 1
          /\ objectId \notin DOMAIN objectMap
          /\ objectId \notin DOMAIN proxyObjectMap

\* C21: a step that takes entries out of the renderer's objectMap or puts a
\* release message on the way to main is a sweep that found WeakRefs cleared:
\* it takes out exactly the entries of the cleared ids, sends exactly one
\* message, which lists exactly those ids, and leaves singletonProxyMap as it
\* was. So a sweep that finds nothing cleared sends nothing and leaves
\* objectMap as it was.
SweepSendsOneBatch ==
    [][LET cleared == Cleared(proxies, proxyObjectMap)
           sentRelease == /\ Len(toMain') > Len(toMain)
                          /\ toMain'[Len(toMain')].type = "release"
           removed == DOMAIN proxyObjectMap \ DOMAIN proxyObjectMap'
       IN (sentRelease \/ removed # {})
          => /\ cleared # {}
             /\ removed = cleared
             /\ proxyObjectMap' = [i \in DOMAIN proxyObjectMap \ cleared |-> proxyObjectMap[i]]
             /\ toMain' = Append(toMain, toMain'[Len(toMain')])
             /\ toMain'[Len(toMain')].type = "release"
             /\ Range(toMain'[Len(toMain')].objectIds) = cleared
             /\ Len(toMain'[Len(toMain')].objectIds) = Cardinality(cleared)
             /\ singletonProxyMap' = singletonProxyMap]_vars

\* C21 witness: one release message lists two ids, and objectMap of the
\* renderer has the entry of neither.
TwoIdsInOneBatch ==
    \E k \in DOMAIN toMain :
        /\ toMain[k].type = "release"
        /\ Len(toMain[k].objectIds) = 2
        /\ Range(toMain[k].objectIds) \cap DOMAIN proxyObjectMap = {}

\* C22: in the renderer an id goes forward only, from no entry in objectMap
\* to an entry with a live proxy, to an entry whose WeakRef is cleared, to an
\* entry deleted: an id gets an entry only if no sweep has listed it before,
\* and then the proxy is alive; an entry whose WeakRef is cleared stays so
\* until it is deleted; and an entry is deleted only when its WeakRef is
\* cleared, by the sweep that lists the id in its release message.
RendererIdMovesForward ==
    [][\A objectId \in 1..MaxId :
          /\ (objectId \notin DOMAIN proxyObjectMap /\ objectId \in DOMAIN proxyObjectMap')
               => /\ swept[objectId] = 0
                  /\ proxyObjectMap'[objectId] \in DOMAIN proxies'
          /\ (objectId \in DOMAIN proxyObjectMap /\ objectId \in DOMAIN proxyObjectMap'
                /\ proxyObjectMap[objectId] \notin DOMAIN proxies)
               => proxyObjectMap'[objectId] \notin DOMAIN proxies'
          /\ (objectId \in DOMAIN proxyObjectMap /\ objectId \notin DOMAIN proxyObjectMap')
               => /\ proxyObjectMap[objectId] \notin DOMAIN proxies
                  /\ swept'[objectId] = swept[objectId] + 1
                  /\ Len(toMain') = Len(toMain) + 1
                  /\ toMain'[Len(toMain')].type = "release"
                  /\ objectId \in Range(toMain'[Len(toMain')].objectIds)]_vars

\* C22 witness: one id has had its entry deleted by a sweep while another
\* id has an entry whose WeakRef is cleared.
ReleasedBesideReclaimed ==
    \E released, reclaimed \in 1..MaxId :
        /\ swept[released] = 1
        /\ released \notin DOMAIN proxyObjectMap
        /\ reclaimed \in DOMAIN proxyObjectMap
        /\ proxyObjectMap[reclaimed] \notin DOMAIN proxies

\* C23: when renderer code reads a member of a proxy, a name read on this
\* proxy before gives the function the earlier read gave and leaves
\* methodCache as it is; a name that is neither 'then', nor inherited by
\* methodCache, nor a function of the target gives a remote function of the
\* proxy's objectId and that name, which methodCache keeps under the name.
\* Each call of a remote function appends exactly one call request to the
\* requests on the way to main, with the function's objectId, its name and
\* the arguments of the call.
MemberResolvedOnce ==
    [][/\ lastCall'.fn = "get" =>
            LET p == lastCall'.proxy
                prop == lastCall'.member
                value == lastCall'.value
            IN /\ prop \in DOMAIN proxies[p].methodCache
                    => /\ value = proxies[p].methodCache[prop]
                       /\ proxies'[p].methodCache = proxies[p].methodCache
               /\ prop \notin ({"then"} \cup ObjectPrototype
                                \cup TargetFunctions(proxies[p].isEventTarget))
                    => /\ value.kind = "remote"
                       /\ value.objectId = proxies[p].objectId
                       /\ value.method = prop
                       /\ prop \in DOMAIN proxies'[p].methodCache
                       /\ proxies'[p].methodCache[prop] = value
       /\ (lastCall'.fn = "invoke" /\ lastCall'.value.kind = "remote")
            => /\ Len(toMain') = Len(toMain) + 1
               /\ toMain' = Append(toMain, toMain'[Len(toMain')])
               /\ toMain'[Len(toMain')].type = "call"
               /\ toMain'[Len(toMain')].objectId = lastCall'.value.objectId
               /\ toMain'[Len(toMain')].method = lastCall'.value.method
               /\ toMain'[Len(toMain')].args = lastCall'.args]_vars

\* C23 witness: renderer code reads a member again and gets the remote
\* function whose call request is on the way to main.
CalledMemberReadAgain ==
    /\ lastCall.fn = "get"
    /\ lastCall.value.kind = "remote"
    /\ \E k \in DOMAIN toMain :
          /\ toMain[k].type = "call"
          /\ toMain[k].objectId = lastCall.value.objectId
          /\ toMain[k].method = lastCall.value.method
          /\ toMain[k].args = "bad"

\* C24: with release messages sent by the sweep of the renderer only, main's
\* objectMap holds the id of every proxy that is alive, and a call request
\* sent through a remote function while its proxy was alive does not fail
\* with ObjectNotFound.
LiveProxyHasInstance ==
    /\ \A p \in DOMAIN proxies : proxies[p].objectId \in DOMAIN objectMap
    /\ (last.req.type = "call" /\ last.req.live) => last.err # "ObjectNotFound"

\* C24 witness: a call sent while the proxy was alive was handled without
\* error after the proxy had been reclaimed and its id swept.
LiveCallOutranSweep ==
    /\ last.req.type = "call"
    /\ last.req.live
    /\ last.err = "none"
    /\ swept[last.req.objectId] = 1
    /\ last.req.objectId \in DOMAIN objectMap

SingletonOwnerFixed ==
    [][/\ \A e \in Endpoints :
             (waiting[e] # NoRequest /\ waiting'[e] = NoRequest /\ last'.created)
             => objectMap'[last'.objectId].sender = e
       /\ \A objectId \in DOMAIN objectMap \cap DOMAIN objectMap' :
             objectMap'[objectId].sender = objectMap[objectId].sender
       /\ lastDispatch' # lastDispatch
             => \A k \in DOMAIN lastDispatch'.trace.sent :
                   lastDispatch'.trace.sent[k].to
                     = objectMap[lastDispatch'.objectId].sender]_vars

\* C26 witness: a getSingleton request that waited while the request of the
\* other endpoint constructed the singleton has been answered with the id of
\* that singleton, and an event of the singleton was forwarded to the endpoint
\* that constructed it.
SharedSingletonForwardedToOwner ==
    /\ last.req.type = "getSingleton"
    /\ ~last.created
    /\ last.req.seen = last.objectId
    /\ last.objectId \in DOMAIN objectMap
    /\ lastDispatch.objectId = last.objectId
    /\ lastDispatch.trace.sent # <<>>
    /\ \A k \in DOMAIN lastDispatch.trace.sent :
          lastDispatch.trace.sent[k].to = objectMap[last.objectId].sender

\* C27: a remote function renderer code still holds after its proxy was
\* reclaimed sends its call request as before, with the objectId it closed
\* over; and once a sweep has listed the id and main has handled that release
\* message, main answers such a call with ObjectNotFound.
RetainedFunctionOutlivesProxy ==
    [][/\ (lastCall'.fn = "invoke" /\ lastCall'.value.kind = "remote"
             /\ lastCall'.value.proxy \notin DOMAIN proxies)
            => /\ Len(toMain') = Len(toMain) + 1
               /\ toMain' = Append(toMain, toMain'[Len(toMain')])
               /\ toMain'[Len(toMain')].type = "call"
               /\ toMain'[Len(toMain')].objectId = lastCall'.value.objectId
               /\ ~toMain'[Len(toMain')].live
       /\ (/\ Handled("call")
           /\ swept[last'.req.objectId] > 0
           /\ \A k \in DOMAIN toMain :
                 toMain[k].type = "release"
                   => last'.req.objectId \notin Range(toMain[k].objectIds))
            => /\ ~last'.req.live
               /\ last'.err = "ObjectNotFound"]_vars

\* C27 witness: the proxy is reclaimed, its id swept and released, renderer
\* code still holds a remote function of it, and the call of that function was
\* answered with ObjectNotFound.
RetainedFunctionNotFound ==
    /\ retained.kind = "remote"
    /\ retained.proxy \notin DOMAIN proxies
    /\ swept[retained.objectId] = 1
    /\ last.req.type = "call"
    /\ last.req.objectId = retained.objectId
    /\ last.req.method = retained.method
    /\ ~last.req.live
    /\ last.err = "ObjectNotFound"
====
